---------------------------- MODULE Spec2Model ----------------------------
(***************************************************************************)
(* Text-tree distance (tted): a model of the tree value type (TextTree and *)
(* the zss Node), its derived trees (at, add_context, copy), the cost      *)
(* table builder (precompute_dists) and the metric (text_tree_distance).   *)
(*                                                                         *)
(* A label is a sequence of one-character strings, so that concatenation   *)
(* (context + ' ' + label) is modelled by what it does.  Node indices are  *)
(* 0-based as in the source; the i-th node of a list is nodes[i + 1].      *)
(***************************************************************************)
EXTENDS Integers, Sequences, FiniteSets, TLC

VARIABLES
    \* tree operations: the input tree, the tree derived last, the tree it
    \* was derived from, the calls made since the input tree, and the size
    \* of tree.at(k) for the depths k tried on the input tree
    tree, cur, prev, calls, atSize,
    \* construction: the nested mapping read from the JSON file, the result
    \* of the constructor called on it, and the result of contextualizing it
    json, parsed, ctx,
    \* comparison: the two input trees (each as a TextTree and as a Node
    \* tree), the encoder and embedding distance supplied by the caller, and
    \* the result of the last comparison
    inA, inB, cost, res,
    \* objects: the heap, the input tree as a TextTree object (hT) and as a
    \* Node object (hZ), the value they had when built, the trees derived
    \* since and still held by the caller, the calls made, and whether the
    \* caller has changed a derived tree
    heap, hT, hZ, hOrig, hDerived, hLog, hMutated

treeVars == <<tree, cur, prev, calls, atSize>>
parseVars == <<json, parsed, ctx>>
cmpVars == <<inA, inB, cost, res>>
heapVars == <<heap, hT, hZ, hOrig, hDerived, hLog, hMutated>>
vars == <<tree, cur, prev, calls, atSize, json, parsed, ctx, inA, inB, cost, res,
          heap, hT, hZ, hOrig, hDerived, hLog, hMutated>>

---------------------------------------------------------------------------
(* Bounds of the model *)

\* Largest number of nodes of an input tree of the tree operations.
MaxTreeNodes == 4
\* Largest depth argument passed to at (0 is the rejected argument).
MaxAtDepth == 4
\* Longest chain of derivations from the input tree.
MaxOps == 2
\* Largest number of entries (nodes) of a nested mapping given to the
\* constructors.
MaxJsonNodes == 4
\* Largest number of nodes of a tree given to a comparison.
MaxCmpNodes == 2
\* Largest number of nodes of a tree compared with its reorderings.
MaxSameNodes == 3
\* The depth limit tried when a tree is compared with its reorderings.
SameDepthLimit == 2
\* Largest number of nodes of a tree held as objects.
MaxHeapNodes == 3
\* Largest number of calls made on the objects.
MaxHeapOps == 2
\* Largest value of the embedding distance.
MaxCost == 3
\* Number of distinct embeddings the encoder produces.
NumEmbeddings == 3
\* Largest depth_factor.
MaxDepthFactor == 2

---------------------------------------------------------------------------
(* Generic helpers *)

Range(s) == {s[i] : i \in 1..Len(s)}

Min2(a, b) == IF a <= b THEN a ELSE b

SetMax(S) == CHOOSE x \in S : \A y \in S : y <= x

SetMin(S) == CHOOSE x \in S : \A y \in S : x <= y

\* range(n) of Python as a sequence: <<0, ..., n-1>>
PyRange(n) == [i \in 1..n |-> i - 1]

\* the one-character labels of the inputs, and the separator of add_context
LabelA == <<"a">>
LabelB == <<"b">>
Space == <<" ">>
EmptyStr == <<>>
BaseLabels == {LabelA, LabelB}
\* labels that tell the nodes of one tree apart
Alphabet == <<"a", "b", "c", "d", "e", "f", "g", "h">>

\* Python's None
None == [none |-> TRUE]
IsNone(x) == "none" \in DOMAIN x

IsTree(x) == "depths" \in DOMAIN x
IsError(x) == "error" \in DOMAIN x

---------------------------------------------------------------------------
(* TextTree: node list + adjacency list + depths *)

\* The parent relation read off an adjacency list (0-based indices).
ParentsOf(adj, c) == {p \in 0..(Len(adj) - 1) : c \in Range(adj[p + 1])}

\* How often c occurs in the child lists.
Occurrences(adj, c) ==
    Cardinality({pq \in (1..Len(adj)) \X (1..MaxTreeNodes + 1) :
                    /\ pq[2] <= Len(adj[pq[1]])
                    /\ adj[pq[1]][pq[2]] = c})

RECURSIVE ReachesRoot(_, _, _)
ReachesRoot(adj, c, fuel) ==
    IF c = 0 THEN TRUE
    ELSE IF fuel = 0 \/ ParentsOf(adj, c) = {} THEN FALSE
    ELSE ReachesRoot(adj, CHOOSE p \in ParentsOf(adj, c) : TRUE, fuel - 1)

\* tree_utils.check_tree_structure: node 0 is the only root, every other
\* node is in exactly one child list, and there is no cycle.
check_tree_structure(adj) ==
    /\ \A p \in 1..Len(adj) : Range(adj[p]) \subseteq 0..(Len(adj) - 1)
    /\ Occurrences(adj, 0) = 0
    /\ \A c \in 1..(Len(adj) - 1) : Occurrences(adj, c) = 1
    /\ \A c \in 0..(Len(adj) - 1) : ReachesRoot(adj, c, Len(adj))

\* The loop of get_depths from node i on; d is the dict built so far.
\* Reading depths[i] of a node that has children and no entry yet is a
\* KeyError.
RECURSIVE get_depths_loop(_, _, _, _)
get_depths_loop(nodes, adj, i, d) ==
    IF i >= Len(nodes) THEN [raised |-> FALSE, depths |-> d]
    ELSE IF adj[i + 1] = <<>> THEN get_depths_loop(nodes, adj, i + 1, d)
    ELSE IF i \notin DOMAIN d THEN [raised |-> TRUE, depths |-> d]
    ELSE get_depths_loop(nodes, adj, i + 1,
            [c \in DOMAIN d \cup Range(adj[i + 1]) |->
                IF c \in Range(adj[i + 1]) THEN d[i] + 1 ELSE d[c]])

get_depths(nodes, adj) == get_depths_loop(nodes, adj, 0, (0 :> 1))

\* TextTree.__init__
TextTree(nodes, adj) ==
    IF ~check_tree_structure(adj) THEN [error |-> "ValueError"]
    ELSE IF get_depths(nodes, adj).raised THEN [error |-> "KeyError"]
    ELSE [nodes |-> nodes, adj |-> adj, depths |-> get_depths(nodes, adj).depths]

\* TextTree.__len__
len(t) == Len(t.nodes)

\* TextTree.nodes_and_adj
nodes_and_adj(t) == [nodes |-> t.nodes, adj |-> t.adj]

\* TextTree.copy
copy(t) == TextTree(t.nodes, [i \in 1..Len(t.adj) |-> t.adj[i]])

\* selected_nodes of at: the kept indices, in order
selected_nodes(t, depth) ==
    SelectSeq(PyRange(len(t)), LAMBDA i : t.depths[i] <= depth)

\* new_node_mapping of at: old index -> new index
new_node_mapping(t, depth) ==
    LET sel == selected_nodes(t, depth)
    IN  [old \in Range(sel) |-> (CHOOSE j \in 1..Len(sel) : sel[j] = old) - 1]

\* at with the comparison of the selection off by one (depths < depth)
at_strict(t, depth) ==
    IF depth < 1 THEN [error |-> "TypeError"]
    ELSE
      LET sel == SelectSeq(PyRange(len(t)), LAMBDA i : t.depths[i] < depth)
          map == [old \in Range(sel) |-> (CHOOSE j \in 1..Len(sel) : sel[j] = old) - 1]
          new_nodes == [j \in 1..Len(sel) |-> t.nodes[sel[j] + 1]]
          kept_adj == [j \in 1..Len(sel) |->
                          IF t.depths[sel[j]] < depth - 1 THEN t.adj[sel[j] + 1] ELSE <<>>]
          new_adj == [j \in 1..Len(sel) |->
                          [c \in 1..Len(kept_adj[j]) |-> map[kept_adj[j][c]]]]
      IN  TextTree(new_nodes, new_adj)

\* at that hands the old depths dict to the new tree instead of having the
\* constructor recompute it for the renumbered nodes
at_stale_depths(t, depth) ==
    IF depth < 1 THEN [error |-> "TypeError"]
    ELSE
      LET sel == selected_nodes(t, depth)
          map == new_node_mapping(t, depth)
          new_nodes == [j \in 1..Len(sel) |-> t.nodes[sel[j] + 1]]
          kept_adj == [j \in 1..Len(sel) |->
                          IF t.depths[sel[j]] < depth THEN t.adj[sel[j] + 1] ELSE <<>>]
      IN  IF \E j \in 1..Len(sel) : ~(Range(kept_adj[j]) \subseteq DOMAIN map)
          THEN [error |-> "KeyError"]
          ELSE [nodes |-> new_nodes,
                adj |-> [j \in 1..Len(sel) |->
                          [c \in 1..Len(kept_adj[j]) |-> map[kept_adj[j][c]]]],
                depths |-> [i \in 0..(Len(sel) - 1) |-> t.depths[i]]]

\* TextTree.at.  A child that is not in new_node_mapping is a KeyError of
\* the dict lookup.
at(t, depth) ==
    IF depth < 1 THEN [error |-> "TypeError"]
    ELSE
      LET sel == selected_nodes(t, depth)
          map == new_node_mapping(t, depth)
          new_nodes == [j \in 1..Len(sel) |-> t.nodes[sel[j] + 1]]
          kept_adj == [j \in 1..Len(sel) |->
                          IF t.depths[sel[j]] < depth THEN t.adj[sel[j] + 1] ELSE <<>>]
      IN  IF \E j \in 1..Len(sel) : ~(Range(kept_adj[j]) \subseteq DOMAIN map)
          THEN [error |-> "KeyError"]
          ELSE TextTree(new_nodes,
                        [j \in 1..Len(sel) |->
                          [c \in 1..Len(kept_adj[j]) |-> map[kept_adj[j][c]]]])

\* _add_context_to_node of TextTree.add_context: relabels node_no and then
\* its subtree, reading the structure and the old labels from t (self) and
\* writing the labels of the copy.
RECURSIVE add_context_to_node(_, _, _, _)
RECURSIVE add_context_to_children(_, _, _, _, _)
add_context_to_node(t, labels, node_no, context) ==
    LET new_node == context \o Space \o t.nodes[node_no + 1]
    IN  add_context_to_children(t, [labels EXCEPT ![node_no + 1] = new_node],
                                t.adj[node_no + 1], 1, new_node)
add_context_to_children(t, labels, kids, j, context) ==
    IF j > Len(kids) THEN labels
    ELSE add_context_to_children(t,
            add_context_to_node(t, labels, kids[j], context), kids, j + 1, context)

\* TextTree.add_context
add_context(t) ==
    LET new_tree == copy(t)
    IN  [new_tree EXCEPT !.nodes = add_context_to_node(t, new_tree.nodes, 0, EmptyStr)]

---------------------------------------------------------------------------
(* The zss Node: label, children, depth (tree_format.py) *)

\* Node.__init__ with no children given
Node(label, depth) == [label |-> label, children |-> <<>>, depth |-> depth]

\* zss.Node.addkid: appends the child
addkid(node, child) == [node EXCEPT !.children = Append(@, child)]

\* A nested mapping is a sequence of entries <<key, value>> in insertion
\* order, the value being the mapping of the children.
RECURSIVE dict_to_node(_, _)
RECURSIVE dict_to_node_kids(_, _, _, _)
\* dict_to_node: an empty mapping gives None; otherwise the FIRST entry is
\* the node and its value the children
dict_to_node(json_data, depth) ==
    IF json_data = <<>> THEN None
    ELSE dict_to_node_kids(Node(json_data[1][1], depth), json_data[1][2], 1, depth)
\* the loop over children_dict.items() from entry j on
dict_to_node_kids(node, children_dict, j, depth) ==
    IF j > Len(children_dict) THEN node
    ELSE LET child_node == dict_to_node(<<children_dict[j]>>, depth + 1)
         IN  dict_to_node_kids(IF IsNone(child_node) THEN node ELSE addkid(node, child_node),
                               children_dict, j + 1, depth)

\* json_to_node, the file read left out
json_to_node(json_data) == dict_to_node(json_data, 0)

\* add_context of tree_with_context
RECURSIVE zss_add_context(_, _)
RECURSIVE zss_add_context_kids(_, _, _)
zss_add_context(node, context) ==
    zss_add_context_kids(Node(context \o node.label, node.depth), node.children, 1)
zss_add_context_kids(new_node, kids, j) ==
    IF j > Len(kids) THEN new_node
    ELSE zss_add_context_kids(addkid(new_node, zss_add_context(kids[j], new_node.label)),
                              kids, j + 1)

\* tree_with_context
tree_with_context(input_node) == zss_add_context(input_node, EmptyStr)

\* extract_sentences: the labels in DFS preorder
RECURSIVE extract_sentences(_)
RECURSIVE extract_sentences_kids(_, _, _)
extract_sentences(t) == extract_sentences_kids(<<t.label>>, t.children, 1)
extract_sentences_kids(sentences, kids, j) ==
    IF j > Len(kids) THEN sentences
    ELSE extract_sentences_kids(sentences \o extract_sentences(kids[j]), kids, j + 1)

---------------------------------------------------------------------------
(* TextTree from a nested mapping (tree_format-checkpoint.py) *)

\* dict_to_nodes_and_adj: None for an empty mapping; otherwise the FIRST
\* entry is the node, numbered node_no, and the children follow in DFS
\* order.  The result is the pair (nodes, adj), a record here.
RECURSIVE dict_to_nodes_and_adj(_, _)
RECURSIVE dict_to_nodes_and_adj_kids(_, _, _, _, _)
dict_to_nodes_and_adj(json_data, node_no) ==
    IF json_data = <<>> THEN None
    ELSE dict_to_nodes_and_adj_kids(<<json_data[1][1]>>, <<<<>>>>, json_data[1][2], 1, node_no)
dict_to_nodes_and_adj_kids(nodes, adj, children_dict, j, node_no) ==
    IF j > Len(children_dict) THEN [nodes |-> nodes, adj |-> adj]
    ELSE LET child_node_no == node_no + Len(nodes)
             adj1 == [adj EXCEPT ![1] = Append(@, child_node_no)]
             child == dict_to_nodes_and_adj(<<children_dict[j]>>, child_node_no)
         IN  IF child.nodes = <<>>
             THEN dict_to_nodes_and_adj_kids(nodes, adj1, children_dict, j + 1, node_no)
             ELSE dict_to_nodes_and_adj_kids(nodes \o child.nodes, adj1 \o child.adj,
                                             children_dict, j + 1, node_no)

\* TextTree.from_json, the file read left out: unpacking None is a TypeError
from_json(json_data) ==
    LET r == dict_to_nodes_and_adj(json_data, 0)
    IN  IF IsNone(r) THEN [error |-> "TypeError"] ELSE TextTree(r.nodes, r.adj)

---------------------------------------------------------------------------
(* The nested mappings given to the constructors: every mapping with at    *)
(* most MaxJsonNodes entries in all, keys distinct within a mapping.       *)

RECURSIVE DictsOfSize(_)
DictsOfSize(n) ==
    IF n = 0 THEN {<<>>}
    ELSE {<<<<k, v>>>> : k \in BaseLabels, v \in DictsOfSize(n - 1)}
         \cup UNION {{<<<<LabelA, v[1]>>, <<LabelB, v[2]>>>> :
                        v \in DictsOfSize(i) \X DictsOfSize(n - 2 - i)}
                     \cup {<<<<LabelB, v[1]>>, <<LabelA, v[2]>>>> :
                        v \in DictsOfSize(i) \X DictsOfSize(n - 2 - i)}
                     : i \in 0..(n - 2)}

JsonInputs == UNION {DictsOfSize(n) : n \in 0..MaxJsonNodes}

---------------------------------------------------------------------------
(* The capabilities supplied by the caller.  The encoder is deterministic: *)
(* the embedding of a string is the weighted sum of its characters modulo  *)
(* NumEmbeddings, so the empty string has embedding 0.  The embedding      *)
(* distance is a nonnegative table of the shape (diag, up, down): it need  *)
(* not be symmetric, nor zero on equal embeddings, nor obey the triangle   *)
(* inequality.                                                             *)

CharWeight(cm, ch) ==
    IF ch = "a" THEN cm.wa ELSE IF ch = "b" THEN cm.wb ELSE cm.ws

RECURSIVE CharSum(_, _)
CharSum(cm, str) ==
    IF str = <<>> THEN 0 ELSE CharWeight(cm, Head(str)) + CharSum(cm, Tail(str))

\* encoder(s) for one string
encode(cm, str) == CharSum(cm, str) % NumEmbeddings

\* encoder(sentences) for a list of strings: one embedding per string
encoder(cm, sentences) == [i \in 1..Len(sentences) |-> encode(cm, sentences[i])]

\* embedding_dist(emb_a, emb_b)
embedding_dist(cm, x, y) ==
    IF x = y THEN cm.diag ELSE IF x < y THEN cm.up ELSE cm.down

Encoders == {[wa |-> 1, wb |-> 2, ws |-> 0], [wa |-> 1, wb |-> 1, ws |-> 1]}

\* all zero; the discrete distance; two asymmetric ones, in which one
\* direction costs as much as MaxCost
UpDown == {<<0, 0>>, <<1, 1>>, <<MaxCost, 1>>, <<1, MaxCost>>}

CostModels ==
    {[wa |-> e.wa, wb |-> e.wb, ws |-> e.ws, diag |-> d, up |-> ud[1], down |-> ud[2]] :
        e \in Encoders, d \in 0..1, ud \in UpDown}

---------------------------------------------------------------------------
(* Cost table builder: precompute_dists *)

\* the index of the last occurrence of x in seq: a later write to the same
\* dict key overwrites an earlier one
LastIndex(seq, x) == SetMax({i \in 1..Len(seq) : seq[i] = x})

\* precompute_dists with one encoder call per sentence instead of one per
\* tree
precompute_dists_per_sentence(sentences_a, sentences_b, cm) ==
    LET embeddings_a == encoder(cm, sentences_a)
        embeddings_b == encoder(cm, sentences_b)
        empty_emb == encode(cm, EmptyStr)
        all_s == sentences_a \o sentences_b
        all_e == embeddings_a \o embeddings_b
    IN  [sentence_dists |->
            [sa \in Range(sentences_a) |-> [sb \in Range(sentences_b) |->
                embedding_dist(cm, embeddings_a[LastIndex(sentences_a, sa)],
                                   embeddings_b[LastIndex(sentences_b, sb)])]],
         sentence_weights |->
            [x \in Range(all_s) |-> embedding_dist(cm, all_e[LastIndex(all_s, x)], empty_emb)],
         calls |-> [i \in 1..Len(all_s) |-> <<all_s[i]>>] \o <<EmptyStr>>]

\* precompute_dists on the two sentence lists.  calls is the log of the
\* arguments of the encoder calls made.
precompute_dists(sentences_a, sentences_b, cm) ==
    LET embeddings_a == encoder(cm, sentences_a)
        embeddings_b == encoder(cm, sentences_b)
        empty_emb == encode(cm, EmptyStr)
        all_s == sentences_a \o sentences_b
        all_e == embeddings_a \o embeddings_b
    IN  [sentence_dists |->
            [sa \in Range(sentences_a) |-> [sb \in Range(sentences_b) |->
                embedding_dist(cm, embeddings_a[LastIndex(sentences_a, sa)],
                                   embeddings_b[LastIndex(sentences_b, sb)])]],
         sentence_weights |->
            [x \in Range(all_s) |-> embedding_dist(cm, all_e[LastIndex(all_s, x)], empty_emb)],
         calls |-> <<sentences_a, sentences_b, EmptyStr>>]

---------------------------------------------------------------------------
(* Cost functions handed to the edit distance.  c holds the two tables and *)
(* the depth_factor; lib tells which entry point built it.                 *)

\* the sentinel of an absent node in update_cost of the edist entry point
Absent == <<"None">>

\* update_cost that charges an insertion or a removal twice
update_cost_double_unary(c, node_a, node_b) ==
    IF node_a = Absent THEN c.sentence_weights[node_b] + c.sentence_weights[node_b]
    ELSE IF node_b = Absent THEN c.sentence_weights[node_a] + c.sentence_weights[node_a]
    ELSE c.sentence_dists[node_a][node_b]

\* update_cost of text_tree_distance (computation-checkpoint.py), on labels
update_cost(c, node_a, node_b) ==
    IF node_a = Absent THEN c.sentence_weights[node_b]
    ELSE IF node_b = Absent THEN c.sentence_weights[node_a]
    ELSE c.sentence_dists[node_a][node_b]

RECURSIVE Pow(_, _)
Pow(b, e) == IF e = 0 THEN 1 ELSE b * Pow(b, e - 1)

\* update_cost, insert_cost and remove_cost of text_tree_distance
\* (computation.py), on Nodes
zss_update_cost(c, node_a, node_b) ==
    c.sentence_dists[node_a.label][node_b.label] * Pow(c.depth_factor, node_a.depth)
zss_insert_cost(c, node) ==
    c.sentence_weights[node.label] * Pow(c.depth_factor, node.depth)
zss_remove_cost(c, node) ==
    c.sentence_weights[node.label] * Pow(c.depth_factor, node.depth)

\* similarity_func, update_cost, insert_cost and remove_cost of
\* text_tree_distance_w_o_precomputation (computation.py), on Nodes; c.cm
\* holds the encoder and the embedding distance
similarity_func(c, sentence_a, sentence_b) ==
    embedding_dist(c.cm, encode(c.cm, sentence_a), encode(c.cm, sentence_b))
w_o_update_cost(c, node_a, node_b) ==
    similarity_func(c, node_a.label, node_b.label) * Pow(c.depth_factor, node_a.depth)
w_o_insert_cost(c, node) == similarity_func(c, node.label, EmptyStr)
w_o_remove_cost(c, node) == similarity_func(c, node.label, EmptyStr)

\* the three costs as the edit distance calls them
UpdateCost(c, a, b) ==
    IF c.lib = "edist" THEN update_cost(c, a.label, b.label)
    ELSE IF c.lib = "zss" THEN zss_update_cost(c, a, b)
    ELSE w_o_update_cost(c, a, b)
InsertCost(c, b) ==
    IF c.lib = "edist" THEN update_cost(c, Absent, b.label)
    ELSE IF c.lib = "zss" THEN zss_insert_cost(c, b)
    ELSE w_o_insert_cost(c, b)
RemoveCost(c, a) ==
    IF c.lib = "edist" THEN update_cost(c, a.label, Absent)
    ELSE IF c.lib = "zss" THEN zss_remove_cost(c, a)
    ELSE w_o_remove_cost(c, a)

---------------------------------------------------------------------------
(* Tree edit distance engine (the edist and zss libraries), from the       *)
(* recurrences of the specification.  A forest is a sequence of Nodes.     *)

Min3(a, b, d) == Min2(a, Min2(b, d))

\* the forest without its last root, whose children take its place
RemoveLastRoot(F) == SubSeq(F, 1, Len(F) - 1) \o F[Len(F)].children

\* Ordered variant: delete the last root of F1, insert the last root of
\* F2, or substitute one for the other.
RECURSIVE ForestDist(_, _, _)
ForestDist(F1, F2, c) ==
    IF F1 = <<>> /\ F2 = <<>> THEN 0
    ELSE IF F1 = <<>> THEN InsertCost(c, F2[Len(F2)]) + ForestDist(F1, RemoveLastRoot(F2), c)
    ELSE IF F2 = <<>> THEN RemoveCost(c, F1[Len(F1)]) + ForestDist(RemoveLastRoot(F1), F2, c)
    ELSE LET v == F1[Len(F1)]
             w == F2[Len(F2)]
         IN  Min3(RemoveCost(c, v) + ForestDist(RemoveLastRoot(F1), F2, c),
                  InsertCost(c, w) + ForestDist(F1, RemoveLastRoot(F2), c),
                  UpdateCost(c, v, w) + ForestDist(v.children, w.children, c)
                      + ForestDist(SubSeq(F1, 1, Len(F1) - 1), SubSeq(F2, 1, Len(F2) - 1), c))

\* the cost of deleting / inserting a whole subtree, a whole list of them
RECURSIVE DelAll(_, _)
RECURSIVE DelForest(_, _)
DelAll(v, c) == RemoveCost(c, v) + DelForest(v.children, c)
DelForest(F, c) == IF F = <<>> THEN 0 ELSE DelAll(Head(F), c) + DelForest(Tail(F), c)
RECURSIVE InsAll(_, _)
RECURSIVE InsForest(_, _)
InsAll(w, c) == InsertCost(c, w) + InsForest(w.children, c)
InsForest(F, c) == IF F = <<>> THEN 0 ELSE InsAll(Head(F), c) + InsForest(Tail(F), c)

WithoutIndex(F, j) == SubSeq(F, 1, j - 1) \o SubSeq(F, j + 1, Len(F))

\* Unordered variant: the roots are aligned, or one tree is aligned with a
\* child subtree of the other; the children of aligned nodes are matched by
\* a minimum-cost assignment in which an unmatched child is charged the
\* unary cost of its subtree.
RECURSIVE TreeDistU(_, _, _)
RECURSIVE ForestDistU(_, _, _)
RECURSIVE MinAssignment(_, _, _)
TreeDistU(v, w, c) ==
    SetMin({ForestDistU(v, w, c) + UpdateCost(c, v, w)}
           \cup {InsAll(w, c) + TreeDistU(v, w.children[j], c) - InsAll(w.children[j], c) :
                    j \in 1..Len(w.children)}
           \cup {DelAll(v, c) + TreeDistU(v.children[i], w, c) - DelAll(v.children[i], c) :
                    i \in 1..Len(v.children)})
ForestDistU(v, w, c) ==
    SetMin({MinAssignment(v.children, w.children, c)}
           \cup {InsForest(w.children, c) + ForestDistU(v, w.children[j], c)
                    - InsForest(w.children[j].children, c) : j \in 1..Len(w.children)}
           \cup {DelForest(v.children, c) + ForestDistU(v.children[i], w, c)
                    - DelForest(v.children[i].children, c) : i \in 1..Len(v.children)})
MinAssignment(S, T, c) ==
    IF S = <<>> THEN InsForest(T, c)
    ELSE SetMin({DelAll(Head(S), c) + MinAssignment(Tail(S), T, c)}
                \cup {TreeDistU(Head(S), T[j], c) + MinAssignment(Tail(S), WithoutIndex(T, j), c) :
                        j \in 1..Len(T)})

\* the subtree of node i of a (nodes, adj) tree, as the engine reads it
RECURSIVE AsNode(_, _, _, _)
AsNode(nodes, adj, i, depth) ==
    [label |-> nodes[i + 1],
     children |-> [j \in 1..Len(adj[i + 1]) |-> AsNode(nodes, adj, adj[i + 1][j], depth + 1)],
     depth |-> depth]

AsForest(nodes, adj) == IF nodes = <<>> THEN <<>> ELSE <<AsNode(nodes, adj, 0, 0)>>

\* edist.ted.ted and edist.uted.uted
ted(x, y, c) == ForestDist(AsForest(x.nodes, x.adj), AsForest(y.nodes, y.adj), c)
uted(x, y, c) ==
    IF x.nodes = <<>> \/ y.nodes = <<>>
    THEN ForestDist(AsForest(x.nodes, x.adj), AsForest(y.nodes, y.adj), c)
    ELSE TreeDistU(AsNode(x.nodes, x.adj, 0, 0), AsNode(y.nodes, y.adj, 0, 0), c)

\* zss.distance
zss_distance(a, b, c) == ForestDist(<<a>>, <<b>>, c)

---------------------------------------------------------------------------
(* Metric: text_tree_distance *)

\* text_tree_distance that contextualizes only the first tree
text_tree_distance_context_a_only(tree_1, tree_2, cm, unordered, use_context) ==
    LET tree_a == IF use_context THEN add_context(copy(tree_1)) ELSE copy(tree_1)
        tree_b == copy(tree_2)
        pre == precompute_dists(tree_a.nodes, tree_b.nodes, cm)
        c == [lib |-> "edist", sentence_dists |-> pre.sentence_dists,
              sentence_weights |-> pre.sentence_weights, depth_factor |-> 1]
    IN  [dist |-> IF unordered THEN uted(nodes_and_adj(tree_a), nodes_and_adj(tree_b), c)
                  ELSE ted(nodes_and_adj(tree_a), nodes_and_adj(tree_b), c),
         calls |-> pre.calls, tree_a |-> tree_a, tree_b |-> tree_b,
         sentence_weights |-> pre.sentence_weights]

\* text_tree_distance that always runs the ordered engine
text_tree_distance_always_ordered(tree_1, tree_2, cm, unordered, use_context) ==
    LET tree_a == IF use_context THEN add_context(copy(tree_1)) ELSE copy(tree_1)
        tree_b == IF use_context THEN add_context(copy(tree_2)) ELSE copy(tree_2)
        pre == precompute_dists(tree_a.nodes, tree_b.nodes, cm)
        c == [lib |-> "edist", sentence_dists |-> pre.sentence_dists,
              sentence_weights |-> pre.sentence_weights, depth_factor |-> 1]
    IN  [dist |-> ted(nodes_and_adj(tree_a), nodes_and_adj(tree_b), c),
         calls |-> pre.calls, tree_a |-> tree_a, tree_b |-> tree_b,
         sentence_weights |-> pre.sentence_weights]

\* text_tree_distance of computation-checkpoint.py.  Besides the distance
\* the record keeps the encoder calls, the transformed trees and the unary
\* costs of this call.
text_tree_distance(tree_1, tree_2, cm, unordered, use_context) ==
    LET tree_a == IF use_context THEN add_context(copy(tree_1)) ELSE copy(tree_1)
        tree_b == IF use_context THEN add_context(copy(tree_2)) ELSE copy(tree_2)
        pre == precompute_dists(tree_a.nodes, tree_b.nodes, cm)
        c == [lib |-> "edist", sentence_dists |-> pre.sentence_dists,
              sentence_weights |-> pre.sentence_weights, depth_factor |-> 1]
    IN  [dist |-> IF unordered THEN uted(nodes_and_adj(tree_a), nodes_and_adj(tree_b), c)
                  ELSE ted(nodes_and_adj(tree_a), nodes_and_adj(tree_b), c),
         calls |-> pre.calls, tree_a |-> tree_a, tree_b |-> tree_b,
         sentence_weights |-> pre.sentence_weights]

\* text_tree_distance of computation.py (zss)
zss_text_tree_distance(tree_1, tree_2, cm, depth_factor, use_context) ==
    LET tree_a == IF use_context THEN tree_with_context(tree_1) ELSE tree_1
        tree_b == IF use_context THEN tree_with_context(tree_2) ELSE tree_2
        pre == precompute_dists(extract_sentences(tree_a), extract_sentences(tree_b), cm)
        c == [lib |-> "zss", sentence_dists |-> pre.sentence_dists,
              sentence_weights |-> pre.sentence_weights, depth_factor |-> depth_factor]
    IN  [dist |-> zss_distance(tree_a, tree_b, c), calls |-> pre.calls]

\* text_tree_distance_w_o_precomputation of computation.py (zss)
text_tree_distance_w_o_precomputation(tree_1, tree_2, cm, depth_factor, use_context) ==
    LET tree_a == IF use_context THEN tree_with_context(tree_1) ELSE tree_1
        tree_b == IF use_context THEN tree_with_context(tree_2) ELSE tree_2
        c == [lib |-> "zss_w_o", cm |-> cm, depth_factor |-> depth_factor]
    IN  [dist |-> zss_distance(tree_a, tree_b, c)]

\* The normalization of the specification (section 4.4, step 5): the
\* fraction 2*raw / (maxUnaryCost*(sizeA + sizeB) + raw), kept as numerator
\* and denominator; 0 when both trees are empty.
normalized(raw, sentence_weights, size_a, size_b) ==
    IF size_a = 0 /\ size_b = 0 THEN [num |-> 0, den |-> 1]
    ELSE LET maxUnaryCost == SetMax({sentence_weights[x] : x \in DOMAIN sentence_weights})
         IN  [num |-> 2 * raw, den |-> maxUnaryCost * (size_a + size_b) + raw]

\* compare of the specification (section 4.4) over text_tree_distance:
\* truncation (depth_limit = 0: not set), the distance, normalization
compare(tree_1, tree_2, cm, normalize, unordered, use_context, depth_limit) ==
    LET t1 == IF depth_limit = 0 THEN tree_1 ELSE at(tree_1, depth_limit)
        t2 == IF depth_limit = 0 THEN tree_2 ELSE at(tree_2, depth_limit)
        r == text_tree_distance(t1, t2, cm, unordered, use_context)
    IN  IF normalize
        THEN normalized(r.dist, r.sentence_weights, len(r.tree_a), len(r.tree_b))
                @@ [calls |-> r.calls]
        ELSE [num |-> r.dist, den |-> 1, calls |-> r.calls]

---------------------------------------------------------------------------
(* Objects and references.  The heap is the sequence of the objects        *)
(* allocated so far and a reference is an index into it.  A Python list or *)
(* dict is an object with items; a TextTree holds the references of its    *)
(* node list, its adjacency list (a list of references of child lists) and *)
(* its depths dict; a Node holds its label, the references of its children *)
(* and its depth.                                                          *)

\* a new list or dict with the given items
ListObj(items) == [kind |-> "list", items |-> items]

\* the value of a TextTree object: labels, child lists, depths
Value(h, t) ==
    [nodes |-> h[h[t].nodes].items,
     adj |-> [i \in 1..Len(h[h[t].adj].items) |-> h[h[h[t].adj].items[i]].items],
     depths |-> h[h[t].depths].items]

\* the mutable objects of a TextTree: the tree object, its node list, its
\* adjacency list, its child lists and its depths dict
ObjectsOf(h, t) ==
    {t, h[t].nodes, h[t].adj, h[t].depths} \cup Range(h[h[t].adj].items)

\* TextTree.__init__ on a node list and an adjacency list that are kept by
\* reference; the depths dict is new
TextTree_init(h, nodes, adj) ==
    LET adj_value == [i \in 1..Len(h[adj].items) |-> h[h[adj].items[i]].items]
        d == get_depths(h[nodes].items, adj_value)
    IN  IF ~check_tree_structure(adj_value) THEN [heap |-> h, error |-> "ValueError"]
        ELSE IF d.raised THEN [heap |-> h, error |-> "KeyError"]
        ELSE LET h1 == Append(h, ListObj(d.depths))
             IN  [heap |-> Append(h1, [kind |-> "TextTree", nodes |-> nodes, adj |-> adj,
                                       depths |-> Len(h1)]),
                  ref |-> Len(h1) + 1]

\* TextTree.copy with self.adj.copy() for the adjacency list: the list of
\* child lists is new, the child lists are those of self
TextTree_copy_shallow(h, self) ==
    LET h1 == Append(h, ListObj(h[h[self].nodes].items))
        h2 == Append(h1, ListObj(h[h[self].adj].items))
    IN  TextTree_init(h2, Len(h1), Len(h2))

\* TextTree.copy: self.nodes.copy() is a new node list, [a.copy() for a in
\* self.adj] a new list of new child lists
TextTree_copy(h, self) ==
    LET n == Len(h[h[self].adj].items)
        h1 == Append(h, ListObj(h[h[self].nodes].items))
        h2 == h1 \o [i \in 1..n |-> ListObj(h[h[h[self].adj].items[i]].items)]
        h3 == Append(h2, ListObj([i \in 1..n |-> Len(h1) + i]))
    IN  TextTree_init(h3, Len(h1), Len(h3))

\* TextTree.at.  new_adj first holds self's own child lists (self.adj[i])
\* and new empty lists; the loop then puts a new renumbered list in every
\* place.  An exception leaves nothing but unreachable objects, which are
\* dropped.
TextTree_at(h, self, depth) ==
    IF depth < 1 THEN [heap |-> h, error |-> "TypeError"]
    ELSE
      LET t == Value(h, self)
          sel == selected_nodes(t, depth)
          map == new_node_mapping(t, depth)
          n == Len(sel)
          inner(j) == t.depths[sel[j]] < depth
          emptyNo(j) == Cardinality({k \in 1..j : ~inner(k)})
          h1 == Append(h, ListObj([j \in 1..n |-> t.nodes[sel[j] + 1]]))
          h2 == h1 \o [k \in 1..emptyNo(n) |-> ListObj(<<>>)]
          first_adj == [j \in 1..n |->
                          IF inner(j) THEN h[h[self].adj].items[sel[j] + 1]
                          ELSE Len(h1) + emptyNo(j)]
          h3 == Append(h2, ListObj(first_adj))
          new_adj == Len(h3)
          h4 == h3 \o [j \in 1..n |->
                          ListObj([c \in 1..Len(h3[first_adj[j]].items) |->
                                      map[h3[first_adj[j]].items[c]]])]
          h5 == [h4 EXCEPT ![new_adj].items = [j \in 1..n |-> Len(h3) + j]]
      IN  IF \E j \in 1..n : ~(Range(h3[first_adj[j]].items) \subseteq DOMAIN map)
          THEN [heap |-> h, error |-> "KeyError"]
          ELSE TextTree_init(h5, Len(h1), new_adj)

\* _add_context_to_node: reads self.nodes and self.adj, writes
\* new_tree.nodes, on the heap as it is at each step
RECURSIVE TextTree_add_context_to_node(_, _, _, _, _)
RECURSIVE TextTree_add_context_to_children(_, _, _, _, _, _)
TextTree_add_context_to_node(h, self, new_tree, node_no, context) ==
    LET new_node == context \o Space \o h[h[self].nodes].items[node_no + 1]
        h1 == [h EXCEPT ![h[new_tree].nodes].items[node_no + 1] = new_node]
    IN  TextTree_add_context_to_children(h1, self, new_tree,
                                         h1[h1[self].adj].items[node_no + 1], 1, new_node)
TextTree_add_context_to_children(h, self, new_tree, child_list, j, context) ==
    IF j > Len(h[child_list].items) THEN h
    ELSE TextTree_add_context_to_children(
            TextTree_add_context_to_node(h, self, new_tree, h[child_list].items[j], context),
            self, new_tree, child_list, j + 1, context)

\* TextTree.add_context
TextTree_add_context(h, self) ==
    LET new_tree == TextTree_copy(h, self)
    IN  IF "error" \in DOMAIN new_tree THEN new_tree
        ELSE [heap |-> TextTree_add_context_to_node(new_tree.heap, self, new_tree.ref,
                                                    0, EmptyStr),
              ref |-> new_tree.ref]

\* text_tree_distance on TextTree objects, up to the call of the engine:
\* the copies, the contextualized copies and the cost tables; tree_a and
\* tree_b are the trees whose lists the engine is given
TextTree_distance(h, tree_1, tree_2, cm, use_context) ==
    LET copy_a == TextTree_copy(h, tree_1)
        copy_b == TextTree_copy(copy_a.heap, tree_2)
        ctx_a == TextTree_add_context(copy_b.heap, copy_a.ref)
        ctx_b == TextTree_add_context(ctx_a.heap, copy_b.ref)
        tree_a == IF use_context THEN ctx_a.ref ELSE copy_a.ref
        tree_b == IF use_context THEN ctx_b.ref ELSE copy_b.ref
        h1 == IF use_context THEN ctx_b.heap ELSE copy_b.heap
    IN  [heap |-> h1, tree_a |-> tree_a, tree_b |-> tree_b,
         tables |-> precompute_dists(h1[h1[tree_a].nodes].items,
                                     h1[h1[tree_b].nodes].items, cm)]

\* the Node objects of the tree under node n, and the tree as a value
RECURSIVE NodesOf(_, _)
NodesOf(h, n) == {n} \cup UNION {NodesOf(h, h[n].children[j]) : j \in 1..Len(h[n].children)}

RECURSIVE NodeValue(_, _)
NodeValue(h, n) ==
    [label |-> h[n].label,
     children |-> [j \in 1..Len(h[n].children) |-> NodeValue(h, h[n].children[j])],
     depth |-> h[n].depth]

\* add_context of tree_with_context: a new Node for node, then a new Node
\* for every child, added to the new Node's children
RECURSIVE Node_add_context(_, _, _)
RECURSIVE Node_add_context_kids(_, _, _, _)
Node_add_context(h, node, context) ==
    LET h1 == Append(h, [kind |-> "Node", label |-> context \o h[node].label,
                         children |-> <<>>, depth |-> h[node].depth])
    IN  Node_add_context_kids(h1, node, Len(h1), 1)
Node_add_context_kids(h, node, new_node, j) ==
    IF j > Len(h[node].children) THEN [heap |-> h, ref |-> new_node]
    ELSE LET r == Node_add_context(h, h[node].children[j], h[new_node].label)
         IN  Node_add_context_kids(
                [r.heap EXCEPT ![new_node].children = Append(@, r.ref)],
                node, new_node, j + 1)

\* tree_with_context on Node objects
Node_tree_with_context(h, input_node) == Node_add_context(h, input_node, EmptyStr)

---------------------------------------------------------------------------
(* The input trees of the tree operations: every (nodes, adj) that the     *)
(* TextTree constructor accepts, up to MaxTreeNodes nodes.                 *)

\* The child list of p under parent vector par, ascending or descending.
ChildList(par, n, p, descending) ==
    LET kids == SelectSeq(PyRange(n), LAMBDA c : c > 0 /\ par[c] = p)
    IN  IF descending THEN [j \in 1..Len(kids) |-> kids[Len(kids) + 1 - j]] ELSE kids

AdjCandidates(n) ==
    {[p \in 1..n |-> ChildList(par, n, p - 1, desc)] :
        par \in [1..(n - 1) -> 0..(n - 1)], desc \in BOOLEAN}

\* every node with a label of its own, so that a label names its node
Labelings(n) == {[i \in 1..n |-> <<Alphabet[i]>>]}

TreesUpTo(size) ==
    UNION {{TextTree(nodes, adj) : nodes \in Labelings(n),
                                   adj \in {a \in AdjCandidates(n) :
                                              IsTree(TextTree([i \in 1..n |-> LabelA], a))}}
           : n \in 1..size}

InputTrees == TreesUpTo(MaxTreeNodes)

---------------------------------------------------------------------------
(* Tree operations as a state machine: a caller holds the input tree and   *)
(* derives trees from it.                                                  *)

\* the variables of a part of the model that a specification does not use
TreeIdle ==
    /\ tree = None /\ cur = None /\ prev = None /\ calls = <<>> /\ atSize = <<>>
ParseIdle ==
    /\ json = <<>> /\ parsed = None /\ ctx = None
CmpIdle ==
    /\ inA = None /\ inB = None /\ cost = None /\ res = None
HeapIdle ==
    /\ heap = <<>> /\ hT = 0 /\ hZ = 0 /\ hOrig = None /\ hDerived = <<>>
    /\ hLog = <<>> /\ hMutated = FALSE

Init ==
    /\ tree \in InputTrees
    /\ cur = tree
    /\ prev = tree
    /\ calls = <<>>
    /\ atSize = <<>>
    /\ ParseIdle
    /\ CmpIdle
    /\ HeapIdle

\* cur = cur.at(depth); a failed call leaves the error in cur
DoAt(depth) ==
    /\ IsTree(cur)
    /\ Len(calls) < MaxOps
    /\ prev' = cur
    /\ cur' = at(cur, depth)
    /\ calls' = Append(calls, [op |-> "at", depth |-> depth])
    /\ UNCHANGED <<tree, atSize, parseVars, cmpVars, heapVars>>

\* cur = cur.add_context()
DoAddContext ==
    /\ IsTree(cur)
    /\ Len(calls) < MaxOps
    /\ prev' = cur
    /\ cur' = add_context(cur)
    /\ calls' = Append(calls, [op |-> "add_context", depth |-> 0])
    /\ UNCHANGED <<tree, atSize, parseVars, cmpVars, heapVars>>

\* the caller's loop over the truncation depths of the input tree:
\* for k in 1..MaxAtDepth: atSize[k] = len(tree.at(k))
DoSizesByDepth ==
    /\ atSize = <<>>
    /\ atSize' = [k \in 1..MaxAtDepth |-> len(at(tree, k))]
    /\ UNCHANGED <<tree, cur, prev, calls, parseVars, cmpVars, heapVars>>

Next ==
    \/ \E depth \in 0..MaxAtDepth : DoAt(depth)
    \/ DoAddContext
    \/ DoSizesByDepth

Spec == Init /\ [][Next]_vars

---------------------------------------------------------------------------
(* Construction as a state machine: a nested mapping is read, one of the   *)
(* constructors is called on it and the tree is contextualized.            *)

ParseInit ==
    /\ json \in JsonInputs
    /\ parsed = None
    /\ ctx = None
    /\ TreeIdle
    /\ CmpIdle
    /\ HeapIdle

\* a call whose result is None leaves parsed as it is, so the result is
\* kept in a record with the name of the call
CallDictToNode ==
    /\ parsed' = [fn |-> "dict_to_node", result |-> json_to_node(json)]
    /\ ctx' = None
    /\ UNCHANGED <<json, treeVars, cmpVars, heapVars>>

CallDictToNodesAndAdj ==
    /\ parsed' = [fn |-> "dict_to_nodes_and_adj", result |-> dict_to_nodes_and_adj(json, 0)]
    /\ ctx' = None
    /\ UNCHANGED <<json, treeVars, cmpVars, heapVars>>

CallFromJson ==
    /\ parsed' = [fn |-> "from_json", result |-> from_json(json)]
    /\ ctx' = None
    /\ UNCHANGED <<json, treeVars, cmpVars, heapVars>>

\* tree_with_context on the Node tree just built
CallTreeWithContext ==
    /\ ~IsNone(parsed) /\ parsed.fn = "dict_to_node" /\ ~IsNone(parsed.result)
    /\ ctx = None
    /\ ctx' = [fn |-> "tree_with_context", result |-> tree_with_context(parsed.result)]
    /\ UNCHANGED <<json, parsed, treeVars, cmpVars, heapVars>>

\* add_context on the TextTree just built
CallAddContext ==
    /\ ~IsNone(parsed) /\ parsed.fn = "from_json" /\ IsTree(parsed.result)
    /\ ctx = None
    /\ ctx' = [fn |-> "add_context", result |-> add_context(parsed.result)]
    /\ UNCHANGED <<json, parsed, treeVars, cmpVars, heapVars>>

ParseNext ==
    \/ CallDictToNode
    \/ CallDictToNodesAndAdj
    \/ CallFromJson
    \/ CallTreeWithContext
    \/ CallAddContext

SpecParse == ParseInit /\ [][ParseNext]_vars

---------------------------------------------------------------------------
(* Comparison as a state machine: two trees are read from nested mappings  *)
(* (each by both constructors), the caller supplies the capabilities, and  *)
(* comparisons are made.                                                   *)

CmpJsonInputs ==
    {j \in UNION {DictsOfSize(n) : n \in 1..MaxCmpNodes} : Len(j) = 1}

CmpInit ==
    /\ \E ja \in CmpJsonInputs :
          inA = [tt |-> from_json(ja), zn |-> json_to_node(ja)]
    /\ \E jb \in CmpJsonInputs :
          inB = [tt |-> from_json(jb), zn |-> json_to_node(jb)]
    /\ cost \in CostModels
    /\ res = None
    /\ TreeIdle
    /\ ParseIdle
    /\ HeapIdle

\* compare(treeA, treeB, ..., normalize, unordered, useContext, depthLimit)
DoCompare(normalize, unordered, use_context, depth_limit) ==
    /\ res = None
    /\ res' = [fn |-> "compare", normalize |-> normalize, unordered |-> unordered,
               use_context |-> use_context, depth_limit |-> depth_limit, depth_factor |-> 1]
              @@ compare(inA.tt, inB.tt, cost, normalize, unordered, use_context, depth_limit)
    /\ UNCHANGED <<inA, inB, cost, treeVars, parseVars, heapVars>>

\* text_tree_distance of computation.py
DoZssDistance(depth_factor, use_context) ==
    /\ res = None
    /\ LET r == zss_text_tree_distance(inA.zn, inB.zn, cost, depth_factor, use_context)
       IN  res' = [fn |-> "zss", normalize |-> FALSE, unordered |-> FALSE,
                   use_context |-> use_context, depth_limit |-> 0,
                   depth_factor |-> depth_factor,
                   num |-> r.dist, den |-> 1, calls |-> r.calls]
    /\ UNCHANGED <<inA, inB, cost, treeVars, parseVars, heapVars>>

CmpNext ==
    \/ \E normalize, unordered, use_context \in BOOLEAN :
          DoCompare(normalize, unordered, use_context, 0)
    \/ \E depth_factor \in {1, MaxDepthFactor}, use_context \in BOOLEAN :
          DoZssDistance(depth_factor, use_context)

SpecCompare == CmpInit /\ [][CmpNext]_vars

---------------------------------------------------------------------------
(* The two zss entry points on the same trees and capabilities.            *)

\* text_tree_distance_w_o_precomputation of computation.py
DoZssDistanceWithoutPrecomputation(depth_factor, use_context) ==
    /\ res = None
    /\ LET r == text_tree_distance_w_o_precomputation(inA.zn, inB.zn, cost,
                                                       depth_factor, use_context)
       IN  res' = [fn |-> "zss_w_o", normalize |-> FALSE, unordered |-> FALSE,
                   use_context |-> use_context, depth_limit |-> 0,
                   depth_factor |-> depth_factor, num |-> r.dist, den |-> 1]
    /\ UNCHANGED <<inA, inB, cost, treeVars, parseVars, heapVars>>

ZssNext ==
    \/ \E depth_factor \in {1, MaxDepthFactor}, use_context \in BOOLEAN :
          DoZssDistance(depth_factor, use_context)
    \/ \E depth_factor \in {1, MaxDepthFactor}, use_context \in BOOLEAN :
          DoZssDistanceWithoutPrecomputation(depth_factor, use_context)

SpecZss == CmpInit /\ [][ZssNext]_vars

---------------------------------------------------------------------------
(* Comparison of a tree with itself and with its sibling reorderings.      *)

\* b is a with the children of some nodes reordered
RECURSIVE IsReordering(_, _)
IsReordering(a, b) ==
    /\ a.label = b.label
    /\ Len(a.children) = Len(b.children)
    /\ \E f \in Permutations(1..Len(a.children)) :
          \A j \in 1..Len(a.children) : IsReordering(a.children[j], b.children[f[j]])

SameJsonInputs ==
    {j \in UNION {DictsOfSize(n) : n \in 1..MaxSameNodes} : Len(j) = 1}

SameInit ==
    /\ \E ja \in SameJsonInputs : \E jb \in SameJsonInputs :
          /\ IsReordering(json_to_node(ja), json_to_node(jb))
          /\ inA = [tt |-> from_json(ja), zn |-> json_to_node(ja)]
          /\ inB = [tt |-> from_json(jb), zn |-> json_to_node(jb)]
    /\ cost \in CostModels
    /\ res = None
    /\ TreeIdle
    /\ ParseIdle
    /\ HeapIdle

SameNext ==
    \/ \E unordered, use_context \in BOOLEAN, depth_limit \in {0, SameDepthLimit} :
          DoCompare(FALSE, unordered, use_context, depth_limit)
    \/ \E depth_factor \in {1, MaxDepthFactor}, use_context \in BOOLEAN :
          DoZssDistance(depth_factor, use_context)

SpecSame == SameInit /\ [][SameNext]_vars

---------------------------------------------------------------------------
(* Trees as objects: the caller builds a tree T (as a TextTree and as a    *)
(* Node tree), derives trees from T and from derived trees, measures       *)
(* distances, and writes into a derived tree.                              *)

\* the caller's TextTree(nodes, adj) on lists built for it
NewTextTree(h, nodes, adj) ==
    LET h1 == Append(h, ListObj(nodes))
        h2 == h1 \o [i \in 1..Len(adj) |-> ListObj(adj[i])]
        h3 == Append(h2, ListObj([i \in 1..Len(adj) |-> Len(h1) + i]))
    IN  TextTree_init(h3, Len(h1), Len(h3))

\* the Node objects of a Node tree given as a value, children first
RECURSIVE NewNode(_, _)
RECURSIVE NewNodeKids(_, _, _, _)
NewNode(h, v) == NewNodeKids(h, v, 1, <<>>)
NewNodeKids(h, v, j, kids) ==
    IF j > Len(v.children)
    THEN [heap |-> Append(h, [kind |-> "Node", label |-> v.label, children |-> kids,
                              depth |-> v.depth]),
          ref |-> Len(h) + 1]
    ELSE LET r == NewNode(h, v.children[j])
         IN  NewNodeKids(r.heap, v, j + 1, Append(kids, r.ref))

\* the encoder and the embedding distance of the distances measured
HeapCostModel == [wa |-> 1, wb |-> 2, ws |-> 0, diag |-> 0, up |-> 1, down |-> 1]

\* the trees of up to MaxHeapNodes nodes, numbered in preorder as from_json
\* numbers them
HeapTrees ==
    {t \in TreesUpTo(MaxHeapNodes) :
        extract_sentences(AsNode(t.nodes, t.adj, 0, 0)) = t.nodes}

HeapInit ==
    /\ \E t \in HeapTrees :
          LET r == NewTextTree(<<>>, t.nodes, t.adj)
              z == NewNode(r.heap, AsNode(t.nodes, t.adj, 0, 0))
          IN  /\ heap = z.heap
              /\ hT = r.ref
              /\ hZ = z.ref
              /\ hOrig = [tt |-> t, zn |-> AsNode(t.nodes, t.adj, 0, 0)]
    /\ hDerived = <<>>
    /\ hLog = <<>>
    /\ hMutated = FALSE
    /\ inA = None /\ inB = None /\ cost = HeapCostModel /\ res = None
    /\ TreeIdle
    /\ ParseIdle

\* the trees the caller holds: T and the derived trees
TextTreesHeld == {hT} \cup {hDerived[k].ref : k \in {j \in 1..Len(hDerived) : hDerived[j].kind = "TextTree"}}
NodesHeld == {hZ} \cup {hDerived[k].ref : k \in {j \in 1..Len(hDerived) : hDerived[j].kind = "Node"}}

\* the outcome r of a call that returns a tree: the tree is held from now
\* on, with the value the call has on values; an exception changes nothing
Returned(r, kind, expect, call) ==
    /\ ~hMutated
    /\ Len(hLog) < MaxHeapOps
    /\ hLog' = Append(hLog, call)
    /\ IF "error" \in DOMAIN r
       THEN UNCHANGED <<heap, hDerived>>
       ELSE /\ heap' = r.heap
            /\ hDerived' = Append(hDerived, [kind |-> kind, ref |-> r.ref, expect |-> expect])
    /\ UNCHANGED <<hT, hZ, hOrig, hMutated, cmpVars, treeVars, parseVars>>

\* d = s.copy()
HeapCopy(s) ==
    Returned(TextTree_copy(heap, s), "TextTree", copy(Value(heap, s)), "copy")

\* d = s.at(depth)
HeapAt(s, depth) ==
    Returned(TextTree_at(heap, s, depth), "TextTree", at(Value(heap, s), depth), "at")

\* d = s.add_context()
HeapAddContext(s) ==
    Returned(TextTree_add_context(heap, s), "TextTree", add_context(Value(heap, s)),
             "add_context")

\* d = tree_with_context(n)
HeapTreeWithContext(n) ==
    Returned(Node_tree_with_context(heap, n), "Node", tree_with_context(NodeValue(heap, n)),
             "tree_with_context")

\* text_tree_distance(s, T) up to the call of the engine, which is given
\* the lists of the two trees built here; these trees are dropped on return.
\* res keeps the labels the cost tables were built from and whether a list
\* given to the engine is a list of s or of T.
HeapDistance(s, use_context) ==
    /\ ~hMutated
    /\ Len(hLog) < MaxHeapOps
    /\ LET r == TextTree_distance(heap, s, hT, cost, use_context)
       IN  /\ heap' = SubSeq(r.heap, 1, Len(heap))
           /\ res' = [fn |-> "text_tree_distance", calls |-> r.tables.calls,
                      shared |-> (ObjectsOf(r.heap, r.tree_a) \cup ObjectsOf(r.heap, r.tree_b))
                                    \cap (ObjectsOf(heap, s) \cup ObjectsOf(heap, hT)) # {}]
    /\ hLog' = Append(hLog, "text_tree_distance")
    /\ UNCHANGED <<hT, hZ, hOrig, hDerived, hMutated, inA, inB, cost, treeVars, parseVars>>

\* the heap after one write of the caller into the derived TextTree d:
\* d.nodes[0] = 'z', d.adj[0].append(0), d.adj.pop(), d.depths[0] = 0
TextTreeWrites(h, d) ==
    {[h EXCEPT ![h[d].nodes].items[1] = <<"z">>],
     [h EXCEPT ![h[h[d].adj].items[1]].items = Append(@, 0)],
     [h EXCEPT ![h[d].adj].items = SubSeq(@, 1, Len(@) - 1)],
     [h EXCEPT ![h[d].depths].items[0] = 0]}

\* the heap after one write of the caller into a Node n of a derived tree:
\* n.label = 'z', n.children.pop(), n.depth = n.depth + 1
NodeWrites(h, n) ==
    {[h EXCEPT ![n].label = <<"z">>],
     [h EXCEPT ![n].children = SubSeq(@, 1, Len(@) - 1)],
     [h EXCEPT ![n].depth = @ + 1]}

\* the caller writes into the derived tree k once and lets go of it
HeapWrite(k) ==
    /\ ~hMutated
    /\ \E h \in IF hDerived[k].kind = "TextTree"
                THEN TextTreeWrites(heap, hDerived[k].ref)
                ELSE UNION {NodeWrites(heap, n) : n \in NodesOf(heap, hDerived[k].ref)} :
          heap' = h
    /\ hDerived' = [j \in 1..(Len(hDerived) - 1) |->
                       IF j < k THEN hDerived[j] ELSE hDerived[j + 1]]
    /\ hMutated' = TRUE
    /\ UNCHANGED <<hT, hZ, hOrig, hLog, cmpVars, treeVars, parseVars>>

HeapNext ==
    \/ \E s \in TextTreesHeld : HeapCopy(s)
    \/ \E s \in TextTreesHeld, depth \in 0..MaxHeapNodes : HeapAt(s, depth)
    \/ \E s \in TextTreesHeld : HeapAddContext(s)
    \/ \E n \in NodesHeld : HeapTreeWithContext(n)
    \/ \E s \in TextTreesHeld, use_context \in BOOLEAN : HeapDistance(s, use_context)
    \/ \E k \in 1..Len(hDerived) : HeapWrite(k)

SpecHeap == HeapInit /\ [][HeapNext]_vars

---------------------------------------------------------------------------
(* Truncation: TextTree.at *)

\* The depth of node c counted along the parent relation (root = 1),
\* independently of the depths dict.
RECURSIVE DepthOf(_, _)
DepthOf(adj, c) ==
    IF c = 0 THEN 1 ELSE 1 + DepthOf(adj, CHOOSE p \in ParentsOf(adj, c) : TRUE)

Height(t) == SetMax({DepthOf(t.adj, i) : i \in 0..(len(t) - 1)})

\* The nodes of t of depth <= k, and the new index of a kept node: the
\* number of kept nodes before it.
Kept(t, k) == {i \in 0..(len(t) - 1) : DepthOf(t.adj, i) <= k}
Rank(t, k, i) == Cardinality({j \in Kept(t, k) : j < i})

LastCall == calls[Len(calls)]

\* r is t truncated to depth k
IsTruncation(t, k, r) ==
    /\ IsTree(r)
    /\ check_tree_structure(r.adj)
    /\ Len(r.nodes) = Cardinality(Kept(t, k))
    /\ Len(r.adj) = Cardinality(Kept(t, k))
    /\ \A i \in Kept(t, k) :
          /\ r.nodes[Rank(t, k, i) + 1] = t.nodes[i + 1]
          /\ r.depths[Rank(t, k, i)] = DepthOf(t.adj, i)
          /\ DepthOf(r.adj, Rank(t, k, i)) = DepthOf(t.adj, i)
          /\ r.adj[Rank(t, k, i) + 1] =
                IF DepthOf(t.adj, i) = k THEN <<>>
                ELSE [c \in 1..Len(t.adj[i + 1]) |-> Rank(t, k, t.adj[i + 1][c])]

\* C4: whenever at(depth) with depth >= 1 has just been applied to a tree,
\* the result is a valid tree holding exactly the nodes of depth <= depth,
\* in their original order and renumbered 0..m-1; the nodes of depth
\* exactly depth are leaves and the shallower ones keep their children,
\* remapped in the same order.
C4_TruncationResult ==
    (calls # <<>> /\ LastCall.op = "at" /\ LastCall.depth >= 1)
        => IsTruncation(prev, LastCall.depth, cur)

\* a truncation that drops nodes and cuts the children of a boundary node,
\* and keeps more than the root
C4_Witness ==
    /\ calls # <<>> /\ LastCall.op = "at" /\ LastCall.depth >= 2
    /\ IsTree(cur) /\ len(cur) < len(prev)
    /\ \E i \in 0..(len(prev) - 1) :
          DepthOf(prev.adj, i) = LastCall.depth /\ prev.adj[i + 1] # <<>>
    /\ \E i \in 0..(len(prev) - 1) : i > 0 /\ prev.adj[i + 1] # <<>>
                                       /\ DepthOf(prev.adj, i) < LastCall.depth

\* C5: truncating to depth k a tree that was just truncated to depth k
\* changes nothing: same labels, same adjacency, same depths.
C5_TruncationIdempotent ==
    (/\ Len(calls) >= 2
     /\ LastCall.op = "at" /\ calls[Len(calls) - 1].op = "at"
     /\ LastCall.depth >= 1 /\ LastCall.depth = calls[Len(calls) - 1].depth)
        => cur = prev

\* the first of the two truncations dropped nodes of the input tree
C5_Witness ==
    /\ Len(calls) = 2
    /\ LastCall.op = "at" /\ calls[1].op = "at"
    /\ LastCall.depth >= 2 /\ LastCall.depth = calls[1].depth
    /\ IsTree(prev) /\ len(prev) < len(tree)
    /\ cur = prev

\* C6 as stated: the size of at(T, k) is at most the size of T, strictly
\* DECREASING in k while k is below the maximum depth of T, and the same
\* for every k from the maximum depth on.
C6_SizeDecreasingInDepth ==
    /\ \A k \in DOMAIN atSize : atSize[k] <= len(tree)
    /\ \A k \in DOMAIN atSize :
          (k + 1 \in DOMAIN atSize /\ k < Height(tree)) => atSize[k + 1] < atSize[k]
    /\ \A k, l \in DOMAIN atSize :
          (k >= Height(tree) /\ l >= Height(tree)) => atSize[k] = atSize[l]

\* C6 amended: the size of at(T, k) is at most the size of T, strictly
\* INCREASING in k while k is below the maximum depth of T, and equal to
\* the size of T for every k from the maximum depth on.
C6_SizeIncreasingInDepth ==
    /\ \A k \in DOMAIN atSize : atSize[k] <= len(tree)
    /\ \A k \in DOMAIN atSize :
          (k + 1 \in DOMAIN atSize /\ k < Height(tree)) => atSize[k] < atSize[k + 1]
    /\ \A k \in DOMAIN atSize : k >= Height(tree) => atSize[k] = len(tree)

\* every depth has been tried on a tree of height 3: two strict steps and
\* two depths at or past the height
C6_Witness ==
    /\ Height(tree) = 3
    /\ atSize # <<>>
    /\ atSize[1] < atSize[2] /\ atSize[2] < atSize[3] /\ atSize[3] = atSize[4]

---------------------------------------------------------------------------
(* Context relabeling: TextTree.add_context and tree_with_context *)

\* The label the claim gives node i of t: the original labels of its
\* ancestors from the root down, then its own, concatenated.
RECURSIVE PathLabel(_, _)
PathLabel(t, i) ==
    IF i = 0 THEN t.nodes[1]
    ELSE PathLabel(t, CHOOSE p \in ParentsOf(t.adj, i) : TRUE) \o t.nodes[i + 1]

\* The label TextTree.add_context gives node i: every label of the path,
\* the root's included, preceded by a space.
RECURSIVE SpacedPathLabel(_, _)
SpacedPathLabel(t, i) ==
    (IF i = 0 THEN EmptyStr
     ELSE SpacedPathLabel(t, CHOOSE p \in ParentsOf(t.adj, i) : TRUE))
        \o Space \o t.nodes[i + 1]

SameStructure(t, r) ==
    /\ IsTree(r)
    /\ len(r) = len(t)
    /\ r.adj = t.adj
    /\ r.depths = t.depths

\* r is t relabelled as the claim says
TextIsContextOf(t, r) ==
    /\ SameStructure(t, r)
    /\ \A i \in 0..(len(t) - 1) : r.nodes[i + 1] = PathLabel(t, i)

\* The same for Node trees: n is o with every label prefixed by the
\* original labels of its ancestors.
RECURSIVE ZssIsContextOf(_, _, _)
ZssIsContextOf(o, n, prefix) ==
    /\ n.label = prefix \o o.label
    /\ n.depth = o.depth
    /\ Len(n.children) = Len(o.children)
    /\ \A j \in 1..Len(o.children) :
          ZssIsContextOf(o.children[j], n.children[j], prefix \o o.label)

\* C7: contextualizing keeps size, adjacency and depths, and the label of
\* every node becomes the concatenation of the original labels of its
\* ancestors, root first, followed by its own; the root keeps its label.
\* Stated of both implementations.
C7_ContextRelabeling ==
    ~IsNone(ctx) =>
        IF ctx.fn = "tree_with_context"
        THEN ZssIsContextOf(parsed.result, ctx.result, EmptyStr)
        ELSE TextIsContextOf(parsed.result, ctx.result)

\* What holds of the two implementations: tree_with_context does what C7
\* says; TextTree.add_context keeps the structure and joins the path with
\* spaces, a leading one included.
C7_ZssContextRelabeling ==
    (~IsNone(ctx) /\ ctx.fn = "tree_with_context")
        => ZssIsContextOf(parsed.result, ctx.result, EmptyStr)

C7_TextTreeContextSpaced ==
    (~IsNone(ctx) /\ ctx.fn = "add_context")
        => /\ SameStructure(parsed.result, ctx.result)
           /\ \A i \in 0..(len(parsed.result) - 1) :
                 ctx.result.nodes[i + 1] = SpacedPathLabel(parsed.result, i)
           /\ ctx.result.nodes[1] # parsed.result.nodes[1]

\* the same of add_context on every tree the constructor accepts
C7_TextTreeContextSpacedAnyTree ==
    (calls # <<>> /\ LastCall.op = "add_context")
        => /\ SameStructure(prev, cur)
           /\ \A i \in 0..(len(prev) - 1) : cur.nodes[i + 1] = SpacedPathLabel(prev, i)

---------------------------------------------------------------------------
(* Malformed input *)

\* C9: a nested mapping with no key or with more than one key at the top
\* is rejected with a MalformedTreeError by every constructor.
C9_MalformedRejected ==
    (~IsNone(parsed) /\ Len(json) # 1)
        => /\ IsError(parsed.result)
           /\ parsed.result.error = "MalformedTreeError"

\* What the constructors do: no key gives None (a TypeError in from_json,
\* which unpacks it); with several keys the first entry is the tree and
\* the others are dropped.
C9_FirstEntryOnly ==
    ~IsNone(parsed) =>
        /\ (Len(json) = 0 /\ parsed.fn # "from_json") => IsNone(parsed.result)
        /\ (Len(json) = 0 /\ parsed.fn = "from_json") => parsed.result = [error |-> "TypeError"]
        /\ (Len(json) >= 1 /\ parsed.fn = "dict_to_node")
              => parsed.result = json_to_node(<<json[1]>>)
        /\ (Len(json) >= 1 /\ parsed.fn = "dict_to_nodes_and_adj")
              => parsed.result = dict_to_nodes_and_adj(<<json[1]>>, 0)
        /\ (Len(json) >= 1 /\ parsed.fn = "from_json")
              => (IsTree(parsed.result) /\ parsed.result = from_json(<<json[1]>>))

---------------------------------------------------------------------------
(* The metric: identity, sibling order, normalization, encoder calls *)

HasResult == ~IsNone(res)
IsCompare == HasResult /\ res.fn = "compare"

\* C1 (identity): under a cost model whose embedding distance is 0 on equal
\* embeddings, the distance of a tree to itself is exactly 0, for the
\* ordered and the unordered engine, with and without context, at every
\* depth limit, and for the zss entry point at every depth factor.
C1_Identity ==
    (HasResult /\ inA = inB /\ cost.diag = 0 /\ ~res.normalize) => res.num = 0

\* a tree of three or more nodes compared with itself, unordered and with
\* context, under a cost model that charges every difference
C1_Witness ==
    /\ IsCompare /\ inA = inB /\ len(inA.tt) >= 3
    /\ res.unordered /\ res.use_context /\ ~res.normalize
    /\ cost.diag = 0 /\ cost.up > 0 /\ cost.down > 0
    /\ res.num = 0

\* C3 (sibling order): under a cost model whose embedding distance is 0 on
\* equal embeddings, the unordered distance between a tree and any tree got
\* from it by reordering the children of some nodes is 0.
C3_UnorderedIgnoresSiblingOrder ==
    (IsCompare /\ res.unordered /\ ~res.normalize /\ cost.diag = 0
        /\ IsReordering(inA.zn, inB.zn))
    => res.num = 0

\* a tree and a different reordering of it, at unordered distance 0 although
\* their ordered distance is not 0
C3_Witness ==
    /\ IsCompare /\ res.unordered /\ ~res.normalize /\ res.depth_limit = 0
    /\ cost.diag = 0
    /\ inA # inB /\ IsReordering(inA.zn, inB.zn)
    /\ res.num = 0
    /\ text_tree_distance(inA.tt, inB.tt, cost, FALSE, res.use_context).dist > 0

\* the labels of the two transformed trees of the comparison made, and the
\* cost tables built from them
ResultTables == precompute_dists(res.calls[1], res.calls[2], cost)

\* every substitution costs no more than a removal plus an insertion
SubstitutionWithinUnary ==
    \A la \in Range(res.calls[1]) : \A lb \in Range(res.calls[2]) :
        ResultTables.sentence_dists[la][lb]
            <= ResultTables.sentence_weights[la] + ResultTables.sentence_weights[lb]

\* C2 (normalization bound), as stated: the normalized result is defined
\* and lies in [0, 1).
C2_NormalizedBelowOne ==
    (IsCompare /\ res.normalize)
    => (res.den > 0 /\ 0 <= res.num /\ res.num < res.den)

\* C2 (normalization bound), amended: whenever the denominator is not 0 the
\* normalized result is at least 0, and it is at most 1 for the ordered
\* engine, and for the unordered engine when every substitution costs no
\* more than a removal plus an insertion; the denominator is 0 only when
\* the raw distance and every unary cost are 0.
C2_NormalizedAtMostOne ==
    (IsCompare /\ res.normalize)
    => /\ res.den >= 0 /\ res.num >= 0
       /\ (res.den = 0) =>
             /\ res.num = 0
             /\ \A x \in DOMAIN ResultTables.sentence_weights :
                   ResultTables.sentence_weights[x] = 0
       /\ (res.den > 0 /\ (~res.unordered \/ SubstitutionWithinUnary))
             => res.num <= res.den

\* the ordered engine on two different trees: the normalized result is
\* exactly 1
C2_Witness ==
    /\ IsCompare /\ res.normalize /\ ~res.unordered
    /\ res.den > 0 /\ res.num = res.den

\* the unordered engine under a substitution dearer than removal plus
\* insertion: the normalized result exceeds 1
C2_UnorderedNeverAboveOne ==
    (IsCompare /\ res.normalize /\ res.den > 0) => res.num <= res.den

\* C8 (encoder calls), as stated: one comparison calls the encoder at most
\* twice.
C8_AtMostTwoEncoderCalls ==
    HasResult => Len(res.calls) <= 2

\* C8 (encoder calls), amended: one comparison calls the encoder exactly
\* three times whatever the sizes of the trees: once with the labels of the
\* first transformed tree, once with those of the second, once with the
\* empty string.
C8_ThreeEncoderCalls ==
    HasResult =>
        /\ Len(res.calls) = 3
        /\ Len(res.calls[1]) >= 1 /\ Len(res.calls[2]) >= 1
        /\ res.calls[3] = EmptyStr
        /\ (res.fn = "compare" /\ res.depth_limit = 0) =>
              /\ Len(res.calls[1]) = len(inA.tt)
              /\ Len(res.calls[2]) = len(inB.tt)
        /\ res.fn = "zss" =>
              /\ Len(res.calls[1]) = Len(extract_sentences(inA.zn))
              /\ Len(res.calls[2]) = Len(extract_sentences(inB.zn))

\* a comparison of a one-node tree with a larger tree
C8_Witness ==
    /\ HasResult /\ len(inA.tt) = 1 /\ len(inB.tt) >= 2
    /\ Len(res.calls) = 3 /\ Len(res.calls[1]) = 1 /\ Len(res.calls[2]) >= 2

---------------------------------------------------------------------------
(* Input trees are not modified *)

\* every derived tree held has the value that the call has on values
HeapAgreesWithValues ==
    \A k \in 1..Len(hDerived) :
        IF hDerived[k].kind = "TextTree"
        THEN Value(heap, hDerived[k].ref) = hDerived[k].expect
        ELSE NodeValue(heap, hDerived[k].ref) = hDerived[k].expect

\* C10 (inputs are not modified): whatever copy, at, add_context,
\* tree_with_context and text_tree_distance calls were made, and whatever
\* the caller wrote into a derived tree, the labels, child lists and depths
\* of T are those it was built with, and a derived tree is another object
\* than T and shares no node list, adjacency list, child list, depths dict
\* or Node with T; nor do the trees that text_tree_distance hands to the
\* engine.
C10_InputsNotModified ==
    /\ Value(heap, hT) = hOrig.tt
    /\ NodeValue(heap, hZ) = hOrig.zn
    /\ \A k \in 1..Len(hDerived) :
          IF hDerived[k].kind = "TextTree"
          THEN ObjectsOf(heap, hDerived[k].ref) \cap ObjectsOf(heap, hT) = {}
          ELSE NodesOf(heap, hDerived[k].ref) \cap NodesOf(heap, hZ) = {}
    /\ (~IsNone(res)) => ~res.shared

\* T has three nodes, a tree was derived from it by at within its depth (so
\* that child lists are carried over), the caller wrote into a derived tree,
\* and another derived tree is still held
C10_Witness ==
    /\ len(hOrig.tt) = 3
    /\ hMutated
    /\ \E i \in 1..Len(hLog) : hLog[i] = "at"
    /\ Len(hDerived) >= 1
    /\ \E k \in 1..Len(hDerived) :
          /\ hDerived[k].kind = "TextTree"
          /\ \E i \in 1..Len(hDerived[k].expect.adj) : hDerived[k].expect.adj[i] # <<>>

---------------------------------------------------------------------------
(* The two zss entry points *)

\* the distance that text_tree_distance (with the precomputed tables)
\* returns on the arguments of the call made
WithPrecomputation ==
    zss_text_tree_distance(inA.zn, inB.zn, cost, res.depth_factor, res.use_context).dist

\* C11 (the zss entry points agree): on the same trees, encoder, embedding
\* distance, depth_factor and use_context,
\* text_tree_distance_w_o_precomputation returns the distance that
\* text_tree_distance returns.
C11_EntryPointsAgree ==
    (HasResult /\ res.fn = "zss_w_o") => res.num = WithPrecomputation

\* at depth_factor 1 the two entry points agree
C11_AgreeAtDepthFactorOne ==
    (HasResult /\ res.fn = "zss_w_o" /\ res.depth_factor = 1) => res.num = WithPrecomputation

\* the two entry points differ only where a node below the root is inserted
\* or removed: on two one-node trees they agree at every depth_factor
C11_AgreeOnRoots ==
    (HasResult /\ res.fn = "zss_w_o" /\ inA.zn.children = <<>> /\ inB.zn.children = <<>>)
    => res.num = WithPrecomputation

=============================================================================
